---- MODULE Spec2Model ----
(***************************************************************************)
(* Model of megapose/nvmegapose.py: the Megapose facade (constructor,      *)
(* inference, observation / detection / object-data loaders, catalog       *)
(* builders, render-cache loader, pose persistence and the visualization   *)
(* compositor) together with the part of the file system it reads and      *)
(* writes.                                                                 *)
(*                                                                         *)
(* Conventions.  Python None and an absent file are the empty sequence,    *)
(* a present value v is <<v>>.  A call's outcome is a record               *)
(* [ok, steps, value]: steps lists the statements the call got through,    *)
(* in order, the last one being the one that raised when ok is FALSE.      *)
(* Python runs with assertions enabled (the default interpreter mode).     *)
(***************************************************************************)
EXTENDS Integers, Sequences, FiniteSets, TLC

VARIABLES
    constructed,     \* Megapose.__init__ has returned
    device,          \* self.device
    model_name,      \* self.model_name
    camera_data,     \* self.camera_data
    object_dataset,  \* self.object_dataset
    pose_estimator,  \* self.pose_estimator: the catalog it was loaded with, the renders attached
    ctor_trace,      \* the collaborator calls __init__ made, in order
    example_dir,     \* the example directory on disk
    saved,           \* the arguments of the last completed save_predictions
    last,            \* the last method call and its outcome
    cad_path,        \* the files below ./bop_datasets/ycbv/models
    renders_path,    \* the entries of ./data/ycbv_generated
    root,            \* the directory handed to make_object_dataset
    result,          \* the outcome of the last catalog / render-cache build
    runs             \* the datasets make_ycb_object_dataset returned for cad_path so far

vars == <<constructed, device, model_name, camera_data, object_dataset, pose_estimator,
          ctor_trace, example_dir, saved, last, cad_path, renders_path, root, result, runs>>

facadeVars == <<constructed, device, model_name, camera_data, object_dataset,
                pose_estimator, ctor_trace>>
callVars == <<example_dir, saved, last>>
diskVars == <<cad_path, renders_path>>
buildVars == <<root, result, runs>>

----------------------------------------------------------------------------
(* Bounds *)

MaxEntries == 3      \* entries of a catalog root
MaxPlys == 3         \* files below the YCB CAD root
MaxViewIndex == 1    \* largest view index a render file carries
MaxPoses == 2        \* pose estimates in one set

----------------------------------------------------------------------------
(* Values *)

None == <<>>
Some(v) == <<v>>

Raise(steps) ==
    [ok |-> FALSE, steps |-> steps, value |-> None, calls |-> <<>>, read |-> None,
     written |-> {}]
Return(steps, v) ==
    [ok |-> TRUE, steps |-> steps, value |-> Some(v), calls |-> <<>>, read |-> None,
     written |-> {}]
ReturnNone(steps) ==
    [ok |-> TRUE, steps |-> steps, value |-> None, calls |-> <<>>, read |-> None,
     written |-> {}]

\* A callee's outcome seen from its caller: the callee's steps follow the caller's.
After(steps, r) == [r EXCEPT !.steps = steps \o r.steps]

\* A file name: kind, then "_" and the digits of num when num is not empty, then suffix.
FileName(kind, num, suffix) == [kind |-> kind, num |-> num, suffix |-> suffix]

\* A directory entry: a file (isdir FALSE, no files) or a directory and the files in it.
Entry(name, isdir, files) == [name |-> name, isdir |-> isdir, files |-> files]

RigidObject(label, mesh_path, mesh_units) ==
    [label |-> label, mesh_path |-> mesh_path, mesh_units |-> mesh_units]

----------------------------------------------------------------------------
(* make_object_dataset *)

\* for fn in object_dir.glob("*"): if fn.suffix in {".obj", ".ply"}; glob on a file yields nothing
Meshes(object_dir) ==
    IF object_dir.isdir
    THEN {fn \in object_dir.files : fn.suffix \in {".obj", ".ply"}}
    ELSE {}

\* The two assertions of the loop body, for one entry of the root.
ObjectDirOk(object_dir) == Cardinality(Meshes(object_dir)) = 1

\* The catalog of a root directory (a set of entries).  The dataset is kept as the set of
\* its objects: the order of the list is the order iterdir yields, which no caller reads.
make_object_dataset(cad_model_dir) ==
    IF \E object_dir \in cad_model_dir : ~ObjectDirOk(object_dir)
    THEN Raise(<<"iterdir", "assert mesh_path">>)
    ELSE Return(<<"iterdir", "RigidObjectDataset">>,
                {RigidObject(e.name, <<e.name, CHOOSE fn \in Meshes(e) : TRUE>>, "m") :
                    e \in cad_model_dir})

----------------------------------------------------------------------------
(* make_ycb_object_dataset *)

\* A file below the CAD root: its path relative to the root, one number per component
\* (the number is the component's rank among the names in use), and its suffix.
CadFile(parts, suffix) == [parts |-> parts, suffix |-> suffix]

\* Path.__lt__: the component lists compared lexicographically.
RECURSIVE PartsLess(_, _)
PartsLess(p, q) ==
    IF q = <<>> THEN FALSE
    ELSE IF p = <<>> THEN TRUE
    ELSE IF Head(p) # Head(q) THEN Head(p) < Head(q)
    ELSE PartsLess(Tail(p), Tail(q))

PathLess(a, b) == PartsLess(a.parts, b.parts)

\* sorted(...): insertion of each element of the enumeration into the sorted prefix.
RECURSIVE Insert(_, _)
Insert(x, s) ==
    IF s = <<>> THEN <<x>>
    ELSE IF PathLess(x, Head(s)) THEN <<x>> \o s
    ELSE <<Head(s)>> \o Insert(x, Tail(s))

\* The enumeration as the file system yielded it (sorted left out).
unsorted(s) == s

RECURSIVE sorted(_)
sorted(s) == IF s = <<>> THEN <<>> ELSE Insert(Head(s), sorted(Tail(s)))

\* Convert_YCB.convert_number: the k-th canonical YCB object name.
convert_number(k) == <<"ycb", k>>

\* All orders in which the file system may enumerate a set of files.
Enumerations(S) ==
    {s \in [1..Cardinality(S) -> S] : \A i, j \in 1..Cardinality(S) : i # j => s[i] # s[j]}

\* rglob('*.ply') over the files below the root, in the order the file system yields them.
rglob_ply(files) == {f \in files : f.suffix = ".ply"}

\* enumeration: the sequence rglob yielded.
make_ycb_object_dataset(enumeration) ==
    LET object_plys == sorted(enumeration)
    IN  Return(<<"rglob", "sorted", "RigidObjectDataset">>,
               {RigidObject(convert_number(num + 1), object_plys[num + 1], "mm") :
                   num \in 0..(Len(object_plys) - 1)})

----------------------------------------------------------------------------
(* load_renders *)

RECURSIVE Digits(_)
Digits(n) == IF n < 10 THEN <<n>> ELSE Append(Digits(n \div 10), n % 10)

RECURSIVE PadZeros(_, _)
PadZeros(s, width) == IF Len(s) >= width THEN s ELSE PadZeros(<<0>> \o s, width)

\* "{:03d}".format(i)
padded_num(i) == PadZeros(Digits(i), 3)

\* sorted(list(sub_folder_path.rglob('*.png')))
png_files(sub_folder) == {f \in sub_folder.files : f.suffix = ".png"}

rgb_path(i) == FileName("rgb", padded_num(i), ".png")
normal_path(i) == FileName("normal", padded_num(i), ".png")

num_files(sub_folder) == Cardinality(png_files(sub_folder)) \div 2

\* Image.open of both files of every index below num_files, then torch.stack, which
\* raises on an empty list.
FolderLoads(sub_folder) ==
    /\ num_files(sub_folder) > 0
    /\ \A i \in 0..(num_files(sub_folder) - 1) :
          /\ rgb_path(i) \in sub_folder.files
          /\ normal_path(i) \in sub_folder.files

\* The stacked tensor of a folder: per view, the pair of files concatenated.
folder_tensor(sub_folder) ==
    [i \in 1..num_files(sub_folder) |-> <<rgb_path(i - 1), normal_path(i - 1)>>]

load_renders(entries) ==
    LET folders == {e \in entries : e.isdir}
    IN  IF \E sub_folder \in folders : ~FolderLoads(sub_folder)
        THEN Raise(<<"listdir", "Image.open">>)
        ELSE Return(<<"listdir", "torch.stack">>,
                    {[label |-> e.name, tensor |-> folder_tensor(e)] : e \in folders})

----------------------------------------------------------------------------
(* Records of megapose.datasets and megapose.inference *)

Labels == {"obj_a", "obj_b"}

\* 4x4 pose matrices: the identity, and the translation by i along x (a different matrix
\* for every i).
Eye4 == <<<<1, 0, 0, 0>>, <<0, 1, 0, 0>>, <<0, 0, 1, 0>>, <<0, 0, 0, 1>>>>
PoseAt(i) == <<<<1, 0, 0, i>>, <<0, 1, 0, 0>>, <<0, 0, 1, 0>>, <<0, 0, 0, 1>>>>
Poses == {PoseAt(1), PoseAt(2)}

Transform(matrix) == [matrix |-> matrix]

ObjectData(label, bbox_modal, TWO) == [label |-> label, bbox_modal |-> bbox_modal, TWO |-> TWO]

\* ObjectData.to_json / from_json, after the JSON schema
\* {"label": string, "bbox_modal": box | null, "TWO": 4x4 | null}.
ObjectData_to_json(x) ==
    [label |-> x.label,
     bbox_modal |-> x.bbox_modal,
     TWO |-> IF x.TWO = None THEN None ELSE Some(x.TWO[1].matrix)]

ObjectData_from_json(d) ==
    ObjectData(d.label, d.bbox_modal, IF d.TWO = None THEN None ELSE Some(Transform(d.TWO[1])))

\* (H, W) resolutions, and arrays by their shape.
ResA == <<2, 3>>
ResB == <<3, 2>>
RgbImage(res) == [shape |-> res \o <<3>>]
DepthImage(res) == [shape |-> res]
shape2(array) == SubSeq(array.shape, 1, 2)

\* CameraData.from_json
CameraData_from_json(d) == [resolution |-> d.resolution, K |-> d.K, TWC |-> None]
CameraJson(res) == [resolution |-> res, K |-> "K"]

BBox == <<100, 120, 300, 340>>

\* make_detections_from_object_data: label and box of every record; stacking no boxes raises.
make_detections_from_object_data(object_data) ==
    IF object_data = <<>>
    THEN Raise(<<"make_detections_from_object_data">>)
    ELSE Return(<<"make_detections_from_object_data">>,
                [i \in 1..Len(object_data) |->
                    [label |-> object_data[i].label, bbox |-> object_data[i].bbox_modal]])

\* ObservationTensor.from_numpy(rgb, depth, K)
ObservationTensor_from_numpy(rgb, depth, K) == [rgb |-> rgb, depth |-> depth, K |-> K]

----------------------------------------------------------------------------
(* The example directory *)

\* example_dir / "ycbv_camera_data.json", "image_rgb.png", "image_depth.png",
\* "object_data.json", "outputs" (None: no such directory; else its object_data.json),
\* "inputs/object_data.json", "visualizations" (None: no such directory; else its PNG
\* files) and the object directories beside them.
ExampleDir(camera, rgb, depth, object_data, outputs, inputs, visualizations, meshes) ==
    [camera |-> camera, rgb |-> rgb, depth |-> depth, object_data |-> object_data,
     outputs |-> outputs, inputs |-> inputs, visualizations |-> visualizations,
     meshes |-> meshes]

JsonFile(name) == FileName(name, <<>>, ".json")
PngFile(name) == FileName(name, <<>>, ".png")

\* Only the object directories: what iterating a "meshes" sub-directory would yield.
iterdir_meshes(d) == d.meshes

\* example_dir.iterdir()
iterdir(d) ==
    (IF d.camera = None THEN {} ELSE {Entry("ycbv_camera_data.json", FALSE, {})})
        \cup (IF d.rgb = None THEN {} ELSE {Entry("image_rgb.png", FALSE, {})})
        \cup (IF d.depth = None THEN {} ELSE {Entry("image_depth.png", FALSE, {})})
        \cup (IF d.object_data = None THEN {} ELSE {Entry("object_data.json", FALSE, {})})
        \cup (IF d.outputs = None THEN {}
              ELSE {Entry("outputs", TRUE,
                          IF d.outputs[1] = None THEN {} ELSE {JsonFile("object_data")})})
        \cup (IF d.inputs = None THEN {}
              ELSE {Entry("inputs", TRUE, {JsonFile("object_data")})})
        \cup (IF d.visualizations = None THEN {}
              ELSE {Entry("visualizations", TRUE, {PngFile(n) : n \in d.visualizations[1]})})
        \cup d.meshes

\* The object-data files load_object_data is given.
read_text(d, data_path) ==
    CASE data_path = "object_data.json" -> d.object_data
      [] data_path = "outputs/object_data.json" ->
            IF d.outputs = None THEN None ELSE d.outputs[1]
      [] data_path = "inputs/object_data.json" -> d.inputs
      [] OTHER -> None

----------------------------------------------------------------------------
(* load_observation, load_observation_tensor, load_object_data, load_detections *)

\* load_observation without its two resolution assertions.
load_observation_unchecked(d, load_depth) ==
    IF d.camera = None THEN Raise(<<"CameraData.from_json">>)
    ELSE IF d.rgb = None THEN Raise(<<"CameraData.from_json", "Image.open rgb">>)
    ELSE IF ~load_depth
    THEN Return(<<"CameraData.from_json", "Image.open rgb", "assert rgb.shape">>,
                [rgb |-> d.rgb[1], depth |-> None,
                 camera_data |-> CameraData_from_json(d.camera[1])])
    ELSE IF d.depth = None
    THEN Raise(<<"CameraData.from_json", "Image.open rgb", "assert rgb.shape",
                 "Image.open depth">>)
    ELSE Return(<<"CameraData.from_json", "Image.open rgb", "assert rgb.shape",
                  "Image.open depth", "assert depth.shape">>,
                [rgb |-> d.rgb[1], depth |-> d.depth,
                 camera_data |-> CameraData_from_json(d.camera[1])])

load_observation(d, load_depth) ==
    IF d.camera = None THEN Raise(<<"CameraData.from_json">>)
    ELSE LET camera == CameraData_from_json(d.camera[1])
         IN  IF d.rgb = None THEN Raise(<<"CameraData.from_json", "Image.open rgb">>)
             ELSE IF shape2(d.rgb[1]) # camera.resolution
             THEN Raise(<<"CameraData.from_json", "Image.open rgb", "assert rgb.shape">>)
             ELSE IF ~load_depth
             THEN Return(<<"CameraData.from_json", "Image.open rgb", "assert rgb.shape">>,
                         [rgb |-> d.rgb[1], depth |-> None, camera_data |-> camera])
             ELSE IF d.depth = None
             THEN Raise(<<"CameraData.from_json", "Image.open rgb", "assert rgb.shape",
                          "Image.open depth">>)
             ELSE IF shape2(d.depth[1]) # camera.resolution
             THEN Raise(<<"CameraData.from_json", "Image.open rgb", "assert rgb.shape",
                          "Image.open depth", "assert depth.shape">>)
             ELSE Return(<<"CameraData.from_json", "Image.open rgb", "assert rgb.shape",
                           "Image.open depth", "assert depth.shape">>,
                         [rgb |-> d.rgb[1], depth |-> d.depth, camera_data |-> camera])

load_observation_tensor(d, load_depth) ==
    LET r == load_observation(d, load_depth)
    IN  IF ~r.ok THEN r
        ELSE Return(r.steps \o <<"ObservationTensor.from_numpy">>,
                    ObservationTensor_from_numpy(r.value[1].rgb, r.value[1].depth,
                                                 r.value[1].camera_data.K))

load_object_data(d, data_path) ==
    LET text == read_text(d, data_path)
    IN  IF text = None THEN Raise(<<"read_text">>)
        ELSE Return(<<"read_text", "json.loads", "ObjectData.from_json">>,
                    [i \in 1..Len(text[1]) |-> ObjectData_from_json(text[1][i])])

load_detections(d) ==
    LET r == load_object_data(d, "inputs/object_data.json")
    IN  IF ~r.ok THEN r ELSE After(r.steps, make_detections_from_object_data(r.value[1]))

----------------------------------------------------------------------------
(* save_predictions *)

Min(a, b) == IF a <= b THEN a ELSE b

\* zip keeping the first pair of every label only.
zip_by_label(labels, poses) ==
    LET n == Min(Len(labels), Len(poses))
        keep == {i \in 1..n : \A j \in 1..(i - 1) : labels[j] # labels[i]}
        RECURSIVE pick(_)
        pick(i) == IF i > n THEN <<>>
                   ELSE (IF i \in keep THEN <<<<labels[i], poses[i]>>>> ELSE <<>>) \o pick(i + 1)
    IN  pick(1)

zip(labels, poses) ==
    [i \in 1..Min(Len(labels), Len(poses)) |-> <<labels[i], poses[i]>>]

\* json.dumps([x.to_json() for x in object_data])
object_data_json(pose_estimates) ==
    LET pairs == zip(pose_estimates.labels, pose_estimates.poses)
        object_data ==
            [i \in 1..Len(pairs) |-> ObjectData(pairs[i][1], None, Some(Transform(pairs[i][2])))]
    IN  [i \in 1..Len(object_data) |-> ObjectData_to_json(object_data[i])]

\* output_fn = example_dir / "object_data.json", relative to the example directory.
output_fn == "object_data.json"

\* output_fn.parent.mkdir(exist_ok=True); output_fn.write_text(...)
write_text(d, data_path, text) ==
    IF data_path = "object_data.json"
    THEN [d EXCEPT !.object_data = Some(text)]
    ELSE [d EXCEPT !.outputs = Some(Some(text))]

save_predictions(d, pose_estimates) ==
    [outcome |-> ReturnNone(<<"json.dumps", "mkdir", "write_text">>),
     dir |-> write_text(d, output_fn, object_data_json(pose_estimates))]

----------------------------------------------------------------------------
(* inference *)

\* pose: the matrix the estimator answers with for the one detection.
inference(self_camera, rgb, depth, label, bbox, pose) ==
    IF shape2(rgb) # self_camera.resolution
    THEN Raise(<<"assert rgb.shape">>)
    ELSE IF depth = None
    THEN Raise(<<"assert rgb.shape", "depth.shape">>)
    ELSE IF shape2(depth[1]) # self_camera.resolution
    THEN Raise(<<"assert rgb.shape", "assert depth.shape">>)
    ELSE LET observation == ObservationTensor_from_numpy(rgb, depth, self_camera.K)
             dets == make_detections_from_object_data(<<ObjectData(label, Some(bbox), None)>>)
         IN  [Return(<<"assert rgb.shape", "assert depth.shape",
                       "ObservationTensor.from_numpy", "ObjectData",
                       "make_detections_from_object_data", "run_inference_pipeline">>,
                     [labels |-> <<label>>, poses |-> <<pose>>])
              EXCEPT !.calls = <<[observation |-> observation, detections |-> dets.value[1],
                                  run_detector |-> FALSE]>>]

----------------------------------------------------------------------------
(* output_visualization *)

Artifacts == {"mesh_overlay", "contour_overlay", "all_results"}
ExportOrder == <<"mesh_overlay", "contour_overlay", "all_results">>

\* The files the export_png calls before the failing one wrote (export_fails = 0: all).
Exported(export_fails) ==
    {ExportOrder[i] : i \in 1..(IF export_fails = 0 THEN Len(ExportOrder) ELSE export_fails - 1)}

\* render_ok: the renderer's own verdict; it also fails on a pose whose label has no mesh.
\* export_fails: which export_png call raises (0: none).
output_visualization(d, render_ok, export_fails) ==
    LET obs == load_observation(d, FALSE)
        poses == load_object_data(d, "outputs/object_data.json")
        catalog == make_object_dataset(iterdir(d))
        upto_render == <<"load_observation", "camera_data.TWC", "load_object_data",
                         "make_object_dataset", "Panda3dSceneRenderer", "render_scene">>
        upto_mkdir == upto_render \o <<"plot_image", "plot_overlay", "make_contour_overlay",
                                       "gridplot", "mkdir">>
        had == IF d.visualizations = None THEN {} ELSE d.visualizations[1]
        wrote == Exported(export_fails)
    IN  IF ~obs.ok
        THEN [outcome |-> Raise(<<"load_observation">>), dir |-> d]
        ELSE IF ~poses.ok
        THEN [outcome |-> Raise(<<"load_observation", "camera_data.TWC", "load_object_data">>),
              dir |-> d]
        ELSE IF ~catalog.ok
        THEN [outcome |-> [Raise(<<"load_observation", "camera_data.TWC", "load_object_data",
                                   "make_object_dataset">>)
                           EXCEPT !.read = poses.value],
              dir |-> d]
        ELSE IF ~render_ok
                \/ \E i \in 1..Len(poses.value[1]) :
                      poses.value[1][i].label \notin {o.label : o \in catalog.value[1]}
        THEN [outcome |-> [Raise(upto_render) EXCEPT !.read = poses.value], dir |-> d]
        ELSE [outcome |->
                 [(IF export_fails = 0
                   THEN ReturnNone(upto_mkdir \o ExportOrder)
                   ELSE Raise(upto_mkdir \o SubSeq(ExportOrder, 1, export_fails)))
                  EXCEPT !.read = poses.value, !.written = wrote],
              dir |-> [d EXCEPT !.visualizations = Some(had \cup wrote)]]

----------------------------------------------------------------------------
(* __init__ *)

ModelName == "megapose-1.0-RGB-multi-hypothesis-icp"

\* ./data/ycbv_camera_data.json
FacadeCamera == CameraData_from_json(CameraJson(ResA))

InitOrder == <<"make_ycb_object_dataset", "load_named_model", "load_renders", "attach_renders">>
\* The constructor attaching renders before it has loaded them, and again after.
InitOrderAttachFirst ==
    <<"make_ycb_object_dataset", "load_named_model", "attach_renders", "load_renders",
      "attach_renders">>

\* The collaborator calls of the constructor, in the order it makes them.
init_calls == InitOrder

\* enumeration: the order rglob yields the CAD files in; entries: the render root.
Megapose_init(dev, enumeration, entries) ==
    LET catalog == make_ycb_object_dataset(enumeration)
        renders == load_renders(entries)
    IN  IF ~renders.ok
        THEN [ok |-> FALSE, trace |-> SubSeq(init_calls, 1, 3),
              device |-> None, model_name |-> None, camera_data |-> None,
              object_dataset |-> None, pose_estimator |-> None]
        ELSE [ok |-> TRUE, trace |-> init_calls,
              device |-> Some(dev), model_name |-> Some(ModelName),
              camera_data |-> Some(FacadeCamera),
              object_dataset |-> catalog.value,
              pose_estimator |-> Some([object_dataset |-> catalog.value[1],
                                       renders |-> renders.value[1],
                                       device |-> dev])]

----------------------------------------------------------------------------
(* Inputs of the builders *)

NamePool == <<"obj_a", "obj_b", "obj_c", "obj_d", "obj_e">>

MeshFilePool ==
    {FileName("mesh", <<>>, ".obj"), FileName("mesh", <<>>, ".ply"),
     FileName("texture", <<>>, ".png")}

\* What one name of a root can be: a plain file, or a directory holding any of the pool's files.
EntryChoices(name, pool) ==
    {Entry(name, FALSE, {})} \cup {Entry(name, TRUE, files) : files \in SUBSET pool}

\* Every directory whose entries carry the first n names of the pool.
RECURSIVE Roots(_, _)
Roots(n, pool) ==
    IF n = 0 THEN {{}}
    ELSE LET rest == Roots(n - 1, pool)
         IN  rest \cup {r \cup {e} : r \in rest, e \in EntryChoices(NamePool[n], pool)}

CatalogRoots == Roots(MaxEntries, MeshFilePool)

CadPool ==
    {CadFile(<<1>>, ".ply"), CadFile(<<2, 1>>, ".ply"), CadFile(<<2, 2>>, ".png"),
     CadFile(<<2, 3>>, ".ply"), CadFile(<<3, 1>>, ".ply"), CadFile(<<3, 2>>, ".ply"),
     CadFile(<<4>>, ".png")}

CadRoots == {S \in SUBSET CadPool : Cardinality(rglob_ply(S)) <= MaxPlys}

RenderFilePool ==
    {FileName(kind, padded_num(i), ".png") : kind \in {"rgb", "normal"}, i \in 0..MaxViewIndex}
        \cup {FileName("rgb", Digits(1), ".png"), FileName("notes", <<>>, ".txt")}

RenderRoots ==
    {{a} : a \in EntryChoices(NamePool[1], RenderFilePool)}
        \cup {{a, b} : a \in EntryChoices(NamePool[1], RenderFilePool),
                       b \in {Entry(NamePool[2], FALSE, {}),
                               Entry(NamePool[2], TRUE, {rgb_path(0), normal_path(0)})}}

----------------------------------------------------------------------------
(* State before and outside any facade *)

\* A call as recorded: the method, its arguments and its outcome.
Call(op, args, r) ==
    [op |-> op, args |-> args, ok |-> r.ok, steps |-> r.steps, value |-> r.value,
     calls |-> r.calls, read |-> r.read, written |-> r.written]
NoCall == Call("", <<>>, Raise(<<>>))

NoFacade ==
    /\ constructed = FALSE
    /\ device = None
    /\ model_name = None
    /\ camera_data = None
    /\ object_dataset = None
    /\ pose_estimator = None
    /\ ctor_trace = <<>>

NoExample ==
    /\ example_dir = None
    /\ saved = None
    /\ last = NoCall

----------------------------------------------------------------------------
(* The facade and one example directory *)

Devices == {"cuda:0", "cpu"}

\* Pose-estimate sets: parallel arrays of labels and poses, at most MaxPoses long, the
\* i-th pose being the translation by i (so that a pose tells its position).
SeqsUpTo(S, n) == UNION {[1..k -> S] : k \in 0..n}
PoseEstimates ==
    {[labels |-> l, poses |-> [i \in 1..Len(l) |-> PoseAt(i)]] : l \in SeqsUpTo(Labels, MaxPoses)}

\* An object-data file persisted earlier (one pose, of obj_a), and an annotation file.
PersistedJson == <<ObjectData_to_json(ObjectData("obj_a", None, Some(Transform(Eye4))))>>
InputsJson == <<ObjectData_to_json(ObjectData("obj_a", Some(BBox), None))>>

MeshDir == Entry("obj_a", TRUE, {FileName("mesh", <<>>, ".ply")})

ExampleDirs ==
    {ExampleDir(camera, rgb, depth, None, outputs, inputs, visualizations, {MeshDir}) :
        camera \in {None, Some(CameraJson(ResA))},
        rgb \in {Some(RgbImage(ResA)), Some(RgbImage(ResB))},
        depth \in {None, Some(DepthImage(ResA)), Some(DepthImage(ResB))},
        outputs \in {None, Some(None), Some(Some(PersistedJson))},
        inputs \in {Some(InputsJson)},
        visualizations \in {None}}

GoodCad == {CadFile(<<1>>, ".ply"), CadFile(<<2, 1>>, ".ply"), CadFile(<<2, 2>>, ".png")}
GoodRenders ==
    {Entry("obj_a", TRUE, {rgb_path(0), normal_path(0)}), Entry("readme", FALSE, {})}
BadRenders == {Entry("obj_a", TRUE, {rgb_path(0), rgb_path(1)})}

Init ==
    /\ NoFacade
    /\ example_dir \in ExampleDirs
    /\ saved = None
    /\ last = NoCall
    /\ cad_path = GoodCad
    /\ renders_path \in {GoodRenders, BadRenders}
    /\ root = {} /\ result = NoCall /\ runs = {}

Construct ==
    /\ ~constructed
    /\ \E dev \in Devices, enumeration \in Enumerations(rglob_ply(cad_path)) :
          LET r == Megapose_init(dev, enumeration, renders_path)
          IN  /\ constructed' = r.ok
              /\ device' = r.device
              /\ model_name' = r.model_name
              /\ camera_data' = r.camera_data
              /\ object_dataset' = r.object_dataset
              /\ pose_estimator' = r.pose_estimator
              /\ ctor_trace' = r.trace
    /\ UNCHANGED <<callVars, diskVars, buildVars>>

Inference ==
    /\ constructed
    /\ \E rgb \in {RgbImage(ResA), RgbImage(ResB)},
          depth \in {None, Some(DepthImage(ResA)), Some(DepthImage(ResB))},
          label \in Labels, pose \in Poses :
          last' = Call("inference", <<rgb, depth, label, BBox>>,
                       inference(camera_data[1], rgb, depth, label, BBox, pose))
    /\ UNCHANGED <<facadeVars, example_dir, saved, diskVars, buildVars>>

LoadObservation ==
    /\ constructed
    /\ \E load_depth \in BOOLEAN :
          last' = Call("load_observation", <<load_depth>>,
                       load_observation(example_dir, load_depth))
    /\ UNCHANGED <<facadeVars, example_dir, saved, diskVars, buildVars>>

LoadObservationTensor ==
    /\ constructed
    /\ \E load_depth \in BOOLEAN :
          last' = Call("load_observation_tensor", <<load_depth>>,
                       load_observation_tensor(example_dir, load_depth))
    /\ UNCHANGED <<facadeVars, example_dir, saved, diskVars, buildVars>>

LoadObjectData ==
    /\ constructed
    /\ \E data_path \in {"object_data.json", "outputs/object_data.json",
                         "inputs/object_data.json"} :
          last' = Call("load_object_data", <<data_path>>,
                       load_object_data(example_dir, data_path))
    /\ UNCHANGED <<facadeVars, example_dir, saved, diskVars, buildVars>>

LoadDetections ==
    /\ constructed
    /\ last' = Call("load_detections", <<>>, load_detections(example_dir))
    /\ UNCHANGED <<facadeVars, example_dir, saved, diskVars, buildVars>>

SavePredictions ==
    /\ constructed
    /\ \E x \in PoseEstimates :
          LET r == save_predictions(example_dir, x)
          IN  /\ example_dir' = r.dir
              /\ saved' = Some(x)
              /\ last' = Call("save_predictions", <<x>>, r.outcome)
    /\ UNCHANGED <<facadeVars, diskVars, buildVars>>

OutputVisualization ==
    /\ constructed
    /\ \E render_ok \in BOOLEAN, export_fails \in 0..Len(ExportOrder) :
          LET r == output_visualization(example_dir, render_ok, export_fails)
          IN  /\ example_dir' = r.dir
              /\ last' = Call("output_visualization", <<render_ok, export_fails>>, r.outcome)
    /\ UNCHANGED <<facadeVars, saved, diskVars, buildVars>>

Next ==
    \/ Construct
    \/ Inference
    \/ LoadObservation
    \/ LoadObservationTensor
    \/ LoadObjectData
    \/ LoadDetections
    \/ SavePredictions
    \/ OutputVisualization

Spec == Init /\ [][Next]_vars

----------------------------------------------------------------------------
(* The catalog builder applied to every root *)

CatalogInit ==
    /\ NoFacade /\ NoExample
    /\ cad_path = {} /\ renders_path = {}
    /\ root \in CatalogRoots
    /\ result = NoCall
    /\ runs = {}

MakeObjectDataset ==
    /\ result' = Call("make_object_dataset", <<>>, make_object_dataset(root))
    /\ UNCHANGED <<facadeVars, callVars, diskVars, root, runs>>

CatalogNext == MakeObjectDataset

CatalogSpec == CatalogInit /\ [][CatalogNext]_vars

(* The YCB catalog builder applied to every CAD root, under every enumeration order *)

YcbInit ==
    /\ NoFacade /\ NoExample
    /\ cad_path \in CadRoots
    /\ renders_path = {} /\ root = {}
    /\ result = NoCall
    /\ runs = {}

MakeYcbObjectDataset ==
    \E enumeration \in Enumerations(rglob_ply(cad_path)) :
        LET r == make_ycb_object_dataset(enumeration)
        IN  /\ result' = Call("make_ycb_object_dataset", enumeration, r)
            /\ runs' = runs \cup {r.value[1]}
            /\ UNCHANGED <<facadeVars, callVars, diskVars, root>>

YcbNext == MakeYcbObjectDataset

YcbSpec == YcbInit /\ [][YcbNext]_vars

(* The render-cache loader applied to every render root *)

RendersInit ==
    /\ NoFacade /\ NoExample
    /\ renders_path \in RenderRoots
    /\ cad_path = {} /\ root = {}
    /\ result = NoCall
    /\ runs = {}

LoadRenders ==
    /\ result' = Call("load_renders", <<>>, load_renders(renders_path))
    /\ UNCHANGED <<facadeVars, callVars, diskVars, root, runs>>

RendersNext == LoadRenders

RendersSpec == RendersInit /\ [][RendersNext]_vars

----------------------------------------------------------------------------
(* Claims *)

\* The records that reading back a pose-estimate set must give: the i-th label, the i-th
\* transform, no bounding box.
Persisted(x) ==
    [i \in 1..Len(x.labels) |->
        [label |-> x.labels[i], bbox_modal |-> None, TWO |-> Some([matrix |-> x.poses[i]])]]

\* The example directory holds a camera file and an RGB image of the camera's resolution.
ObservationLoads ==
    /\ example_dir.camera # None
    /\ example_dir.rgb # None
    /\ example_dir.rgb[1].shape = example_dir.camera[1].resolution \o <<3>>

C2_MismatchStopsEverything ==
    /\ (/\ last.op = "load_observation"
        /\ example_dir.camera # None /\ example_dir.rgb # None
        /\ example_dir.rgb[1].shape # example_dir.camera[1].resolution \o <<3>>)
       => /\ ~last.ok
          /\ last.value = None
          /\ \A i \in 1..Len(last.steps) : last.steps[i] # "Image.open depth"
    /\ (/\ last.op = "inference"
        /\ last.args[1].shape # camera_data[1].resolution \o <<3>>)
       => /\ ~last.ok
          /\ last.value = None
          /\ last.calls = <<>>
          /\ \A i \in 1..Len(last.steps) :
                last.steps[i] \notin {"ObservationTensor.from_numpy", "ObjectData",
                                      "make_detections_from_object_data",
                                      "run_inference_pipeline"}

\* C2 witness: load_observation with load_depth=True over a depth image that is there and
\* an RGB image of another resolution than the camera's has failed.
C2_Witness ==
    /\ last.op = "load_observation"
    /\ last.args = <<TRUE>>
    /\ example_dir.camera # None /\ example_dir.rgb # None /\ example_dir.depth # None
    /\ example_dir.rgb[1].shape # example_dir.camera[1].resolution \o <<3>>
    /\ ~last.ok

\* C3: load_object_data of the file save_predictions(example_dir, x) wrote returns one
\* record per entry of x, in order: the i-th label, the i-th transform, a null box.
C3_RoundTrip ==
    (/\ last.op = "load_object_data"
     /\ last.args = <<"object_data.json">>
     /\ saved # None)
    => (Len(saved[1].labels) = Len(saved[1].poses)
        => /\ last.ok
           /\ last.value = Some(Persisted(saved[1])))

\* C3 witness: a set of two poses under the same label was saved and read back.
C3_Witness ==
    /\ last.op = "load_object_data"
    /\ last.args = <<"object_data.json">>
    /\ saved # None
    /\ Len(saved[1].labels) = 2
    /\ saved[1].labels[1] = saved[1].labels[2]
    /\ last.ok

\* The PNG files of a render folder named rgb_NNN / normal_NNN, and their indices.
ViewFiles(e, kind) == {f \in e.files : f.suffix = ".png" /\ f.kind = kind /\ Len(f.num) = 3}
ViewIndices(e, kind) == {f.num : f \in ViewFiles(e, kind)}
Unmatched(e) ==
    \/ Cardinality(ViewFiles(e, "rgb")) # Cardinality(ViewFiles(e, "normal"))
    \/ Cardinality({f \in e.files : f.suffix = ".png"}) % 2 = 1
    \/ ViewIndices(e, "rgb") # ViewIndices(e, "normal")

\* C4: load_renders fails whenever some label directory's PNG files are not a matched
\* set of rgb/normal pairs.
C4_UnmatchedIsFatal ==
    (/\ result.op = "load_renders"
     /\ \E e \in renders_path : e.isdir /\ Unmatched(e))
    => ~result.ok

\* C5: make_object_dataset succeeds exactly when the root is not empty and every entry of
\* it holds exactly one .obj or .ply file; the dataset then has one object per entry,
\* labelled with the entry's name, in meters.
C5_CatalogContract ==
    result.op = "make_object_dataset"
    => /\ result.ok <=>
            /\ root # {}
            /\ \A e \in root :
                  Cardinality({f \in e.files : f.suffix \in {".obj", ".ply"}}) = 1
       /\ result.ok =>
            /\ Cardinality(result.value[1]) = Cardinality(root)
            /\ \A e \in root :
                  \E o \in result.value[1] : o.label = e.name /\ o.mesh_units = "m"

\* The position (from 1) of a .ply file among the .ply files below the CAD root, by path.
Rank(f) == 1 + Cardinality({g \in rglob_ply(cad_path) : PartsLess(g.parts, f.parts)})

\* C6: whatever order the .ply files are enumerated in, the dataset has exactly one
\* object per file, in millimeters, the k-th file by path labelled convert_number(k), and
\* every run over the same files yields the same dataset.
C6_YcbLabelsBySortedPath ==
    result.op = "make_ycb_object_dataset"
    => /\ result.ok
       /\ Cardinality(result.value[1]) = Cardinality(rglob_ply(cad_path))
       /\ \A f \in rglob_ply(cad_path) :
             \E o \in result.value[1] :
                /\ o.mesh_path = f
                /\ o.label = <<"ycb", Rank(f)>>
                /\ o.mesh_units = "mm"
       /\ Cardinality(runs) = 1

\* C6 witness: a run whose enumeration yielded three files, the last by path first.
C6_Witness ==
    /\ result.op = "make_ycb_object_dataset"
    /\ Len(result.args) = 3
    /\ Rank(result.args[1]) = 3
    /\ result.ok

\* The example directory is laid out for a visualization: camera file, matching RGB image,
\* one persisted pose, and an object directory of that label holding one mesh.
ExampleLaidOut ==
    /\ ObservationLoads
    /\ example_dir.outputs = Some(Some(PersistedJson))
    /\ \E e \in example_dir.meshes :
          /\ e.name = PersistedJson[1].label
          /\ Cardinality({f \in e.files : f.suffix \in {".obj", ".ply"}}) = 1

\* C7: over such a directory and with a renderer and exporter that succeed,
\* output_visualization completes, the visualizations directory exists, and the mesh
\* overlay, the contour overlay and the grid are exported (the raw input image as well,
\* which the formula does not even ask for).
C7_VisualizationCompletes ==
    (/\ last.op = "output_visualization"
     /\ last.args = <<TRUE, 0>>
     /\ ExampleLaidOut)
    => /\ last.ok
       /\ example_dir.visualizations # None
       /\ Artifacts \subseteq last.written

\* C8: inference with depth None and an RGB image of the camera's resolution succeeds,
\* with exactly one estimator call, over an observation without depth and the one
\* detection of the given label and box.
C8_DepthOptional ==
    (/\ last.op = "inference"
     /\ last.args[2] = None
     /\ last.args[1].shape = camera_data[1].resolution \o <<3>>)
    => /\ last.ok
       /\ Len(last.calls) = 1
       /\ last.calls[1].observation.depth = None
       /\ last.calls[1].detections = <<[label |-> last.args[3], bbox |-> Some(last.args[4])]>>

\* C9: an output_visualization that follows a save_predictions over the same example
\* directory reads back exactly the saved poses.
C9_HandOff ==
    (/\ last.op = "output_visualization"
     /\ saved # None
     /\ ObservationLoads)
    => last.read = Some(Persisted(saved[1]))

\* C10: the constructor builds the catalog, loads the estimator with it, loads the render
\* cache and attaches it, in that order and once; no method is called before it has
\* returned; and no later call changes the catalog, the attached renders, the device, the
\* model preset or the camera record, or attaches renders again.
C10_InitOnceThenReadOnly ==
    /\ [](constructed =>
            /\ ctor_trace = <<"make_ycb_object_dataset", "load_named_model", "load_renders",
                              "attach_renders">>
            /\ pose_estimator[1].object_dataset = object_dataset[1])
    /\ [](~constructed => last.op = "")
    /\ [][constructed => UNCHANGED facadeVars]_vars

\* C10 witness: after construction a visualization call has run (and aborted) and the
\* facade still holds the camera record and preset it was built with.
C10_Witness ==
    /\ constructed
    /\ last.op = "output_visualization"
    /\ camera_data = Some(FacadeCamera)
    /\ model_name = Some(ModelName)
    /\ ctor_trace = InitOrder

====
